---------------------------- MODULE Spec2Model ----------------------------
(***************************************************************************)
(* Model of svg-combiner (src/src/main.rs): one batch run of main().       *)
(*                                                                         *)
(*   read -> parse -> extract_paths -> flatten -> combine loop ->          *)
(*   cleaning (simplify, filter_small, union, simplify) -> emit -> write   *)
(*   -> statistics                                                         *)
(*                                                                         *)
(* Geometry.  The plane is a strip of NumCols cells.  A point is a pair    *)
(* <<x, y>> of lattice coordinates, x in 0..NumCols, y in 0..1; one step   *)
(* in x is Delta length units (the inflate distance of line 119), one      *)
(* step in y is RowHeight length units.  A contour is a sequence of        *)
(* points, as in the code.  The clipper2 operations are modelled by what   *)
(* they do to the filled cells: the winding number of a contour around a   *)
(* cell centre is computed from its edges, signed_area by the shoelace     *)
(* formula, and union / difference / inflate return one positively         *)
(* oriented rectangle per maximal run of filled cells.                     *)
(***************************************************************************)
EXTENDS Integers, Sequences, FiniteSets

\* ------------------------------------------------------------------ bounds
MaxNodes == 4
MaxShapes == 2
MaxLines == 2
MaxSubpaths == 2
NumCols == 3
RowHeight == 3

\* ------------------------------------------------------- program constants
\* inflate(g, 10.0, ...): the offset distance, one cell width
Delta == 10
\* filter_small(combined, 50.0)
MinArea == 50
\* combined.simplify(0.2, true), in tenths of a length unit
CoarseTol == 2
\* combined.simplify(0.1, true), in tenths of a length unit
FineTol == 1

\* ----------------------------------------------------------------- helpers
RECURSIVE SumSeq(_)
SumSeq(s) == IF s = <<>> THEN 0 ELSE Head(s) + SumSeq(Tail(s))

RECURSIVE SortedSeq(_)
SortedSeq(S) ==
    IF S = {} THEN <<>>
    ELSE LET m == CHOOSE x \in S : \A y \in S : x <= y
         IN <<m>> \o SortedSeq(S \ {m})

RECURSIVE Flat(_)
Flat(ss) == IF ss = <<>> THEN <<>> ELSE Head(ss) \o Flat(Tail(ss))

Abs(x) == IF x < 0 THEN -x ELSE x

\* --------------------------------------------------------------- geometry
Cells == 0 .. (NumCols - 1)

\* Edge i of a closed contour runs from point i to the next point, the last
\* one back to the first.
EdgeFrom(c, i) == c[i]
EdgeTo(c, i) == c[(i % Len(c)) + 1]

\* Contribution of one edge to the winding number around the centre of cell
\* k: the edge crosses the vertical through the centre above it.
EdgeWinding(p, q, k) ==
    LET dx == q[1] - p[1]
        dy == q[2] - p[2]
        crosses == (p[1] <= k /\ k < q[1]) \/ (q[1] <= k /\ k < p[1])
        \* y at the crossing compared with the centre's, scaled by 2*|dx|
        above == IF dx > 0
                 THEN 2 * dx * p[2] + (2 * k + 1 - 2 * p[1]) * dy > dx
                 ELSE 2 * dx * p[2] + (2 * k + 1 - 2 * p[1]) * dy < dx
    IN IF crosses /\ above THEN (IF dx < 0 THEN 1 ELSE -1) ELSE 0

Winding(c, k) ==
    IF c = <<>> THEN 0
    ELSE SumSeq([i \in 1 .. Len(c) |-> EdgeWinding(EdgeFrom(c, i), EdgeTo(c, i), k)])

\* Twice the signed area of a contour in lattice units (shoelace).
Area2(c) ==
    IF c = <<>> THEN 0
    ELSE SumSeq([i \in 1 .. Len(c) |->
                   EdgeFrom(c, i)[1] * EdgeTo(c, i)[2]
                 - EdgeTo(c, i)[1] * EdgeFrom(c, i)[2]])

\* Path::signed_area() in length units, doubled to stay integral.
signed_area2(c) == Area2(c) * Delta * RowHeight

\* The cells a polygon set fills under FillRule::NonZero.
Filled(ps) ==
    {k \in Cells : SumSeq([i \in 1 .. Len(ps) |-> Winding(ps[i], k)]) # 0}

RectContour(a, b) == << <<a, 0>>, <<b, 0>>, <<b, 1>>, <<a, 1>> >>

\* The boolean operations' result: one positively oriented contour per
\* maximal run of filled cells, left to right.
Contours(S) ==
    LET starts == {a \in S : (a - 1) \notin S}
        stop(a) == CHOOSE b \in (a + 1) .. NumCols :
                       /\ \A k \in a .. (b - 1) : k \in S
                       /\ b \notin S
        ss == SortedSeq(starts)
    IN [i \in 1 .. Len(ss) |-> RectContour(ss[i], stop(ss[i]))]

\* union(a, b, FillRule::NonZero)
Union(a, b) == Contours(Filled(a) \cup Filled(b))

\* difference(a, b, FillRule::NonZero)
Difference(a, b) == Contours(Filled(a) \ Filled(b))

\* inflate(g, 10.0, JoinType::Round, EndType::Polygon, 0.0): the filled
\* cells of g and a margin of Delta (one cell) on either side.
Inflate(g) ==
    LET S == Filled(g)
    IN Contours({k \in Cells : k \in S \/ (k - 1) \in S \/ (k + 1) \in S})

\* Squared perpendicular distance of p from the line through a and b
\* against the squared tolerance, in tenths of a length unit.
WithinTol(p, a, b, tol) ==
    LET sx == Delta * 10
        sy == RowHeight * 10
        ax == (p[1] - a[1]) * sx
        ay == (p[2] - a[2]) * sy
        cx == (b[1] - a[1]) * sx
        cy == (b[2] - a[2]) * sy
        cross == ax * cy - cx * ay
    IN IF cx = 0 /\ cy = 0 THEN TRUE
       ELSE cross * cross <= tol * tol * (cx * cx + cy * cy)

Prev(c, i) == c[IF i = 1 THEN Len(c) ELSE i - 1]

Removable(c, tol) ==
    {i \in 1 .. Len(c) : WithinTol(c[i], Prev(c, i), EdgeTo(c, i), tol)}

\* The removal loop of simplify: vertices within tol of the line through
\* their neighbours are removed one at a time until none is left or only
\* two points remain.
RECURSIVE Reduce(_, _)
Reduce(c, tol) ==
    IF Len(c) <= 2 \/ Removable(c, tol) = {} THEN c
    ELSE LET i == CHOOSE j \in Removable(c, tol) :
                      \A m \in Removable(c, tol) : j <= m
         IN Reduce(SubSeq(c, 1, i - 1) \o SubSeq(c, i + 1, Len(c)), tol)

\* Path::simplify(tol, true): a closed path of fewer than 4 points is
\* returned as it is.
SimplifyPath(c, tol) == IF Len(c) < 4 THEN c ELSE Reduce(c, tol)

\* Paths::simplify(tol, true)
Simplify(ps, tol) == [i \in 1 .. Len(ps) |-> SimplifyPath(ps[i], tol)]

\* Keeps p when |p.signed_area()| >= min_area.
KeepsArea(c, min_area) == Abs(signed_area2(c)) >= 2 * min_area

\* A faulty filter: the condition inverted, keeping the small contours.
filter_small_inverted(ps, min_area) ==
    SelectSeq(ps, LAMBDA c : ~KeepsArea(c, min_area))

\* filter_small(paths, min_area)
filter_small(ps, min_area) == SelectSeq(ps, LAMBDA c : KeepsArea(c, min_area))

\* ------------------------------------------------------------- the input
Kinds == {"Path", "Group", "Other"}

Begin(p) == [t |-> "Begin", p |-> p, close |-> FALSE]
Line(p) == [t |-> "Line", p |-> p, close |-> FALSE]
End(close) == [t |-> "End", p |-> <<0, 0>>, close |-> close]

\* Corner i (1, 2, ...; wrapping) of the rectangle over cells a .. b-1.
Corner(a, b, ccw, i) ==
    LET cs == IF ccw THEN RectContour(a, b)
              ELSE << <<a, 0>>, <<a, 1>>, <<b, 1>>, <<b, 0>> >>
    IN cs[((i - 1) % 4) + 1]

\* The flattening events of one subpath tracing that rectangle: Begin at
\* its first corner, nlines Line events, and an End event (closed or open)
\* or none at all (a subpath the builder never ended).
SubpathEvents(a, b, ccw, nlines, ending) ==
    <<Begin(Corner(a, b, ccw, 1))>>
    \o [i \in 1 .. nlines |-> Line(Corner(a, b, ccw, i + 1))]
    \o (IF ending = "none" THEN <<>> ELSE <<End(ending = "closed")>>)

ClosedRect(a, b, ccw) == SubpathEvents(a, b, ccw, 3, "closed")

\* Every tree of exactly n nodes below the root (node 0): a node's parent
\* is the root or an earlier Group node; children are ordered by id.
RECURSIVE TreesOf(_)
TreesOf(n) ==
    IF n = 0 THEN {[n |-> 0, kind |-> <<>>, parent |-> <<>>]}
    ELSE UNION {
           {[n |-> n, kind |-> Append(t.kind, k), parent |-> Append(t.parent, q)] :
               k \in Kinds,
               q \in {0} \cup {g \in 1 .. (n - 1) : t.kind[g] = "Group"}}
           : t \in TreesOf(n - 1)}

\* A tree with a Group (node 1), a node of another kind inside it (node 2)
\* and np Path nodes, alternately inside the Group and under the root.
StdTree(np) ==
    [n |-> np + 2,
     kind |-> [i \in 1 .. (np + 2) |->
                  IF i = 1 THEN "Group" ELSE IF i = 2 THEN "Other" ELSE "Path"],
     parent |-> [i \in 1 .. (np + 2) |->
                  IF i = 1 THEN 0 ELSE IF i = 2 THEN 1
                  ELSE IF i % 2 = 1 THEN 1 ELSE 0]]

PathNodes(t) == {i \in 1 .. t.n : t.kind[i] = "Path"}

WithData(t, data) == [n |-> t.n, kind |-> t.kind, parent |-> t.parent, data |-> data]

\* Documents for the extractor: every tree of up to maxn nodes, each Path
\* node holding one closed rectangle.
ExtractDocs(maxn) ==
    {WithData(t, [i \in 1 .. t.n |->
                     IF t.kind[i] = "Path" THEN ClosedRect(0, 2, TRUE) ELSE <<>>]) :
        t \in UNION {TreesOf(n) : n \in 0 .. maxn}}

\* Event streams for the flattener: up to maxs subpaths, each with
\* 0 .. maxl Line events and any ending.
Endings == {"closed", "open", "none"}

SubpathAt(j, nlines, ending) ==
    LET a == (j - 1) % (NumCols - 1)
    IN SubpathEvents(a, a + 2, j % 2 = 1, nlines, ending)

RECURSIVE StreamsOf(_, _)
StreamsOf(j, maxl) ==
    IF j = 0 THEN {<<>>}
    ELSE {s \o SubpathAt(j, nl, e) :
            s \in StreamsOf(j - 1, maxl), nl \in 0 .. maxl, e \in Endings}

Streams(maxs, maxl) == UNION {StreamsOf(j, maxl) : j \in 0 .. maxs}

\* Documents for the flattener: up to maxp Path nodes, one of them (the
\* free one) with any stream, the others one closed rectangle.
FlattenDocs(maxp) ==
    UNION {
      {WithData(StdTree(np), [i \in 1 .. (np + 2) |->
                   IF i <= 2 THEN <<>>
                   ELSE IF i = free THEN s
                   ELSE ClosedRect(0, 2, TRUE)]) :
          free \in 3 .. (np + 2), s \in Streams(MaxSubpaths, MaxLines)}
      : np \in 1 .. maxp}

\* Shapes for the combiner: one closed rectangle of either orientation, or
\* two overlapping rectangles of opposite orientation.
Spans(cols) == {ab \in (0 .. (cols - 1)) \X (1 .. cols) : ab[1] < ab[2]}

Shapes(cols) ==
    {ClosedRect(ab[1], ab[2], ccw) : ab \in Spans(cols), ccw \in BOOLEAN}
    \cup {ClosedRect(a, a + 2, TRUE) \o ClosedRect(a + 1, a + 3, FALSE) :
            a \in 0 .. (cols - 3)}

\* Documents for the combiner: up to maxp Path nodes, each any shape.
CombineDocs(maxp) ==
    UNION {
      {WithData(StdTree(np), [i \in 1 .. (np + 2) |->
                   IF i <= 2 THEN <<>> ELSE sh[i]]) :
          sh \in [3 .. (np + 2) -> Shapes(NumCols)]}
      : np \in 0 .. maxp}

\* ------------------------------------------------------------- the state
VARIABLES
    tree,                   \* the parsed document (usvg::Tree)
    pc,                     \* where main() is
    error,                  \* the error main() returned, or "none"
    stack,                  \* nodes extract_paths has still to visit
    visited,                \* nodes extract_paths was called on, in order
    paths,                  \* Vec<Path>: the extracted path shapes
    idx,                    \* flatten loop: index of the current path
    ei,                     \* flatten loop: index of the next event
    current_polygon,        \* points of the subpath being accumulated
    contour_segments,       \* contours committed for the current path
    contour_segments_paths, \* the polygon groups
    input_vertices,
    gi,                     \* combiner loop: index of the next group
    expanded,               \* the last inflate result
    combined,
    ops,                    \* the cleaning calls made so far
    d,                      \* the draw-command string, as commands
    output_polygons,
    output,                 \* ./output.svg, or NoDoc
    stats                   \* the statistics printed, or NoStats

vars == <<tree, pc, error, stack, visited, paths, idx, ei, current_polygon,
          contour_segments, contour_segments_paths, input_vertices, gi,
          expanded, combined, ops, d, output_polygons, output, stats>>

NoDoc == [written |-> FALSE, d |-> <<>>]
NoStats == [printed |-> FALSE]

InitWith(docs) ==
    /\ tree \in docs
    /\ pc = "read"
    /\ error = "none"
    /\ stack = <<>>
    /\ visited = <<>>
    /\ paths = <<>>
    /\ idx = 1
    /\ ei = 1
    /\ current_polygon = <<>>
    /\ contour_segments = <<>>
    /\ contour_segments_paths = <<>>
    /\ input_vertices = 0
    /\ gi = 1
    /\ expanded = <<>>
    /\ combined = <<>>
    /\ ops = <<>>
    /\ d = <<>>
    /\ output_polygons = 0
    /\ output = NoDoc
    /\ stats = NoStats

\* A faulty error path: a clip error in the loop is swallowed and the run
\* goes on with what was accumulated.
PcAfterError_fallback(stage) ==
    IF stage = "combine" THEN "simplify_coarse" ELSE "failed"

\* `?` on an Err: main returns the error at once.
PcAfterError(stage) == "failed"

Abort(stage, e) ==
    /\ pc' = PcAfterError(stage)
    /\ error' = e

\* ------------------------------------------------------- read and parse
ReadOk ==
    /\ pc = "read"
    /\ pc' = "parse"
    /\ UNCHANGED <<tree, error, stack, visited, paths, idx, ei, current_polygon,
                   contour_segments, contour_segments_paths, input_vertices, gi,
                   expanded, combined, ops, d, output_polygons, output, stats>>

ReadFail ==
    /\ pc = "read"
    /\ Abort("read", "read")
    /\ UNCHANGED <<tree, stack, visited, paths, idx, ei, current_polygon,
                   contour_segments, contour_segments_paths, input_vertices, gi,
                   expanded, combined, ops, d, output_polygons, output, stats>>

\* The children of node p (0: the root) in document order.
Children(p) ==
    SelectSeq([i \in 1 .. tree.n |-> i], LAMBDA i : tree.parent[i] = p)

ParseOk ==
    /\ pc = "parse"
    /\ pc' = "extract"
    /\ stack' = Children(0)
    /\ UNCHANGED <<tree, error, visited, paths, idx, ei, current_polygon,
                   contour_segments, contour_segments_paths, input_vertices, gi,
                   expanded, combined, ops, d, output_polygons, output, stats>>

ParseFail ==
    /\ pc = "parse"
    /\ Abort("parse", "parse")
    /\ UNCHANGED <<tree, stack, visited, paths, idx, ei, current_polygon,
                   contour_segments, contour_segments_paths, input_vertices, gi,
                   expanded, combined, ops, d, output_polygons, output, stats>>

\* ------------------------------------------------------- extract_paths
\* builder.build(): the path shape of one Path node.
BuildPath(node) == [node |-> node, events |-> tree.data[node]]

\* A faulty traversal: a Group's children are queued behind the pending
\* nodes (breadth first).
Pending_breadth_first(node, rest) ==
    IF tree.kind[node] = "Group" THEN rest \o Children(node) ELSE rest

\* What a call of extract_paths on `node` leaves to visit: a Group's
\* children come before everything that was already pending.
Pending(node, rest) ==
    IF tree.kind[node] = "Group" THEN Children(node) \o rest ELSE rest

\* What the call appends to `paths`.
Extracted(node) ==
    IF tree.kind[node] = "Path" THEN <<BuildPath(node)>> ELSE <<>>

ExtractStep(kind) ==
    /\ pc = "extract"
    /\ stack # <<>>
    /\ tree.kind[Head(stack)] = kind
    /\ visited' = Append(visited, Head(stack))
    /\ paths' = paths \o Extracted(Head(stack))
    /\ stack' = Pending(Head(stack), Tail(stack))
    /\ UNCHANGED <<tree, pc, error, idx, ei, current_polygon,
                   contour_segments, contour_segments_paths, input_vertices, gi,
                   expanded, combined, ops, d, output_polygons, output, stats>>

ExtractPath == ExtractStep("Path")
ExtractGroup == ExtractStep("Group")
ExtractOther == ExtractStep("Other")

ExtractDone ==
    /\ pc = "extract"
    /\ stack = <<>>
    /\ pc' = "flatten"
    /\ UNCHANGED <<tree, error, stack, visited, paths, idx, ei, current_polygon,
                   contour_segments, contour_segments_paths, input_vertices, gi,
                   expanded, combined, ops, d, output_polygons, output, stats>>

\* ------------------------------------------------------------- flatten
Event == paths[idx].events[ei]

InPath == pc = "flatten" /\ idx <= Len(paths) /\ ei <= Len(paths[idx].events)

FlattenBegin ==
    /\ InPath
    /\ Event.t = "Begin"
    /\ current_polygon' = <<Event.p>>
    /\ ei' = ei + 1
    /\ UNCHANGED <<tree, pc, error, stack, visited, paths, idx,
                   contour_segments, contour_segments_paths, input_vertices, gi,
                   expanded, combined, ops, d, output_polygons, output, stats>>

FlattenLine ==
    /\ InPath
    /\ Event.t = "Line"
    /\ current_polygon' = Append(current_polygon, Event.p)
    /\ ei' = ei + 1
    /\ UNCHANGED <<tree, pc, error, stack, visited, paths, idx,
                   contour_segments, contour_segments_paths, input_vertices, gi,
                   expanded, combined, ops, d, output_polygons, output, stats>>

\* A faulty commit test: the close flag is not looked at.
Commits_any_end(close, polygon) == Len(polygon) >= 3

\* if close && current_polygon.len() >= 3
Commits(close, polygon) == close /\ Len(polygon) >= 3

FlattenEnd ==
    /\ InPath
    /\ Event.t = "End"
    /\ contour_segments' =
          IF Commits(Event.close, current_polygon)
          THEN Append(contour_segments, current_polygon)
          ELSE contour_segments
    /\ ei' = ei + 1
    /\ UNCHANGED <<tree, pc, error, stack, visited, paths, idx, current_polygon,
                   contour_segments_paths, input_vertices, gi,
                   expanded, combined, ops, d, output_polygons, output, stats>>

\* A faulty group commit: the group is pushed even when it is empty.
PushGroup_always(groups, contours) == Append(groups, contours)

\* if !contour_segments.is_empty() { contour_segments_paths.push(...) }
PushGroup(groups, contours) ==
    IF contours # <<>> THEN Append(groups, contours) ELSE groups

\* A faulty reset: the accumulator is kept from one path to the next.
ResetContours_kept(contours) == contours

\* contour_segments = Vec::new() at the end of each path
ResetContours(contours) == <<>>

VertexCount(ps) == SumSeq([i \in 1 .. Len(ps) |-> Len(ps[i])])

\* The events of the current path are exhausted.
PathDone ==
    /\ pc = "flatten"
    /\ idx <= Len(paths)
    /\ ei > Len(paths[idx].events)
    /\ contour_segments_paths' = PushGroup(contour_segments_paths, contour_segments)
    /\ input_vertices' = input_vertices + VertexCount(contour_segments)
    /\ contour_segments' = ResetContours(contour_segments)
    /\ current_polygon' = <<>>
    /\ idx' = idx + 1
    /\ ei' = 1
    /\ UNCHANGED <<tree, pc, error, stack, visited, paths, gi,
                   expanded, combined, ops, d, output_polygons, output, stats>>

FlattenDone ==
    /\ pc = "flatten"
    /\ idx > Len(paths)
    /\ pc' = "combine"
    /\ UNCHANGED <<tree, error, stack, visited, paths, idx, ei, current_polygon,
                   contour_segments, contour_segments_paths, input_vertices, gi,
                   expanded, combined, ops, d, output_polygons, output, stats>>

\* ------------------------------------------------------ group combiner
\* A faulty loop body: the union is made before the difference.
CombineResult_union_first(acc, g, exp) ==
    IF acc = <<>> THEN g ELSE Difference(Union(acc, g), exp)

\* A faulty loop body: the accumulation is seeded with the offset form.
CombineResult_seed_expanded(acc, g, exp) ==
    IF acc = <<>> THEN exp ELSE Union(Difference(acc, exp), g)

\* The body of the loop over the groups, lines 121-126.
CombineResult(acc, g, exp) ==
    IF acc = <<>> THEN g ELSE Union(Difference(acc, exp), g)

\* difference and union return a ClipError only when they have geometry to
\* work on.
ClipMayFail(a, b) == a # <<>> \/ b # <<>>

CombineGroup ==
    /\ pc = "combine"
    /\ gi <= Len(contour_segments_paths)
    /\ expanded' = Inflate(contour_segments_paths[gi])
    /\ combined' = CombineResult(combined, contour_segments_paths[gi], expanded')
    /\ gi' = gi + 1
    /\ UNCHANGED <<tree, pc, error, stack, visited, paths, idx, ei, current_polygon,
                   contour_segments, contour_segments_paths, input_vertices,
                   ops, d, output_polygons, output, stats>>

\* difference(...)? or union(...)? returns Err
CombineFail ==
    /\ pc = "combine"
    /\ gi <= Len(contour_segments_paths)
    /\ combined # <<>>
    /\ ClipMayFail(combined, contour_segments_paths[gi])
    /\ expanded' = Inflate(contour_segments_paths[gi])
    /\ Abort("combine", "clip")
    /\ UNCHANGED <<tree, stack, visited, paths, idx, ei, current_polygon,
                   contour_segments, contour_segments_paths, input_vertices, gi,
                   combined, ops, d, output_polygons, output, stats>>

\* ------------------------------------------------------------ cleaning
\* A faulty cleaning: the filter step is skipped.
StageAfter_no_filter(stage) ==
    CASE stage = "combine" -> "simplify_coarse"
      [] stage = "simplify_coarse" -> "reunion"
      [] stage = "reunion" -> "simplify_fine"
      [] stage = "simplify_fine" -> "emit"
      [] OTHER -> "done"

\* The statement that follows each one, lines 117-135.
StageAfter(stage) ==
    CASE stage = "combine" -> "simplify_coarse"
      [] stage = "simplify_coarse" -> "filter"
      [] stage = "filter" -> "reunion"
      [] stage = "reunion" -> "simplify_fine"
      [] stage = "simplify_fine" -> "emit"
      [] OTHER -> "done"

CombineDone ==
    /\ pc = "combine"
    /\ gi > Len(contour_segments_paths)
    /\ pc' = StageAfter("combine")
    /\ UNCHANGED <<tree, error, stack, visited, paths, idx, ei, current_polygon,
                   contour_segments, contour_segments_paths, input_vertices, gi,
                   expanded, combined, ops, d, output_polygons, output, stats>>

SimplifyCoarse ==
    /\ pc = "simplify_coarse"
    /\ combined' = Simplify(combined, CoarseTol)
    /\ ops' = Append(ops, [op |-> "simplify", arg |-> CoarseTol])
    /\ pc' = StageAfter("simplify_coarse")
    /\ UNCHANGED <<tree, error, stack, visited, paths, idx, ei, current_polygon,
                   contour_segments, contour_segments_paths, input_vertices, gi,
                   expanded, d, output_polygons, output, stats>>

FilterSmall ==
    /\ pc = "filter"
    /\ combined' = filter_small(combined, MinArea)
    /\ ops' = Append(ops, [op |-> "filter_small", arg |-> MinArea])
    /\ pc' = StageAfter("filter")
    /\ UNCHANGED <<tree, error, stack, visited, paths, idx, ei, current_polygon,
                   contour_segments, contour_segments_paths, input_vertices, gi,
                   expanded, d, output_polygons, output, stats>>

ReUnion ==
    /\ pc = "reunion"
    /\ combined' = Union(combined, <<>>)
    /\ ops' = Append(ops, [op |-> "union", arg |-> 0])
    /\ pc' = StageAfter("reunion")
    /\ UNCHANGED <<tree, error, stack, visited, paths, idx, ei, current_polygon,
                   contour_segments, contour_segments_paths, input_vertices, gi,
                   expanded, d, output_polygons, output, stats>>

ReUnionFail ==
    /\ pc = "reunion"
    /\ ClipMayFail(combined, <<>>)
    /\ Abort("reunion", "clip")
    /\ UNCHANGED <<tree, stack, visited, paths, idx, ei, current_polygon,
                   contour_segments, contour_segments_paths, input_vertices, gi,
                   expanded, combined, ops, d, output_polygons, output, stats>>

SimplifyFine ==
    /\ pc = "simplify_fine"
    /\ combined' = Simplify(combined, FineTol)
    /\ ops' = Append(ops, [op |-> "simplify", arg |-> FineTol])
    /\ pc' = StageAfter("simplify_fine")
    /\ UNCHANGED <<tree, error, stack, visited, paths, idx, ei, current_polygon,
                   contour_segments, contour_segments_paths, input_vertices, gi,
                   expanded, d, output_polygons, output, stats>>

\* ---------------------------------------------------- emit, write, report
\* "M x y " then "L x y " for every further point, then "Z ".
PolyCommands(poly) ==
    IF poly = <<>> THEN <<>>
    ELSE <<[c |-> "M", p |-> poly[1]]>>
         \o [i \in 1 .. (Len(poly) - 1) |-> [c |-> "L", p |-> poly[i + 1]]]
         \o <<[c |-> "Z", p |-> <<0, 0>>]>>

\* A faulty emitter: the close command is pushed once, after the loop.
PathData_close_after_loop(ps) ==
    Flat([i \in 1 .. Len(ps) |->
            IF ps[i] = <<>> THEN <<>>
            ELSE SubSeq(PolyCommands(ps[i]), 1, Len(ps[i]))])
    \o <<[c |-> "Z", p |-> <<0, 0>>]>>

PathData(ps) == Flat([i \in 1 .. Len(ps) |-> PolyCommands(ps[i])])

Emit ==
    /\ pc = "emit"
    /\ output_polygons' = Len(combined)
    /\ d' = PathData(combined)
    /\ pc' = "write"
    /\ UNCHANGED <<tree, error, stack, visited, paths, idx, ei, current_polygon,
                   contour_segments, contour_segments_paths, input_vertices, gi,
                   expanded, combined, ops, output, stats>>

WriteOk ==
    /\ pc = "write"
    /\ output' = [written |-> TRUE, d |-> d]
    /\ pc' = "stats"
    /\ UNCHANGED <<tree, error, stack, visited, paths, idx, ei, current_polygon,
                   contour_segments, contour_segments_paths, input_vertices, gi,
                   expanded, combined, ops, d, output_polygons, stats>>

WriteFail ==
    /\ pc = "write"
    /\ Abort("write", "write")
    /\ UNCHANGED <<tree, stack, visited, paths, idx, ei, current_polygon,
                   contour_segments, contour_segments_paths, input_vertices, gi,
                   expanded, combined, ops, d, output_polygons, output, stats>>

Statistics ==
    /\ pc = "stats"
    /\ stats' = [printed |-> TRUE,
                 input_vertices |-> input_vertices,
                 output_polygons |-> output_polygons,
                 output_vertices |-> VertexCount(combined),
                 reduction |-> VertexCount(combined) < input_vertices]
    /\ pc' = "done"
    /\ UNCHANGED <<tree, error, stack, visited, paths, idx, ei, current_polygon,
                   contour_segments, contour_segments_paths, input_vertices, gi,
                   expanded, combined, ops, d, output_polygons, output>>

\* ------------------------------------------------------ specifications
Next ==
    \/ ReadOk \/ ReadFail \/ ParseOk \/ ParseFail
    \/ ExtractPath \/ ExtractGroup \/ ExtractOther \/ ExtractDone
    \/ FlattenBegin \/ FlattenLine \/ FlattenEnd \/ PathDone \/ FlattenDone
    \/ CombineGroup \/ CombineFail \/ CombineDone
    \/ SimplifyCoarse \/ FilterSmall \/ ReUnion \/ ReUnionFail \/ SimplifyFine
    \/ Emit \/ WriteOk \/ WriteFail \/ Statistics

\* Runs over the combiner's documents.
Init == InitWith(CombineDocs(MaxShapes))
Spec == Init /\ [][Next]_vars

\* Runs over the extractor's documents.
InitExtract == InitWith(ExtractDocs(MaxNodes))
SpecExtract == InitExtract /\ [][Next]_vars

\* Runs over the flattener's documents.
InitFlatten == InitWith(FlattenDocs(MaxShapes))
SpecFlatten == InitFlatten /\ [][Next]_vars

\* ----------------------------------------------- reference definitions
\* main() got past parsing / extraction / flattening / the combiner loop.
Parsed == pc \notin {"read", "parse"} /\ error \notin {"read", "parse"}
AfterExtract == Parsed /\ pc # "extract"
AfterFlatten == AfterExtract /\ pc # "flatten"
AfterLoop == AfterFlatten /\ pc # "combine" /\ ~(error = "clip" /\ ops = <<>>)
AfterCleaning == pc \in {"emit", "write", "stats", "done"} \/ error = "write"

\* The tree in pre-order (document order), by recursion on the tree.
RECURSIVE PreOrderFrom(_)
PreOrderFrom(node) ==
    <<node>> \o
    (IF tree.kind[node] = "Group"
     THEN Flat([i \in 1 .. Len(Children(node)) |-> PreOrderFrom(Children(node)[i])])
     ELSE <<>>)

DocOrder == Flat([i \in 1 .. Len(Children(0)) |-> PreOrderFrom(Children(0)[i])])

\* The points a stream has accumulated when its event j arrives: those of
\* the last Begin before j and of the Line events after it.
LastBegin(evs, j) ==
    LET B == {b \in 1 .. (j - 1) : evs[b].t = "Begin"}
    IN IF B = {} THEN 0 ELSE CHOOSE b \in B : \A c \in B : c <= b

PointsAt(evs, j) ==
    LET b == LastBegin(evs, j)
        idxs == SortedSeq({i \in 1 .. (j - 1) :
                             i >= b /\ evs[i].t \in {"Begin", "Line"}})
    IN [i \in 1 .. Len(idxs) |-> evs[idxs[i]].p]

\* The events among the first n of a stream that close a subpath of at
\* least 3 points.
ClosingEvents(evs, n) ==
    {j \in 1 .. n : evs[j].t = "End" /\ evs[j].close /\ Len(PointsAt(evs, j)) >= 3}

\* The contours of a stream's first n events, in subpath order.
ContoursOf(evs, n) ==
    LET js == SortedSeq(ClosingEvents(evs, n))
    IN [i \in 1 .. Len(js) |-> PointsAt(evs, js[i])]

AllContours(evs) == ContoursOf(evs, Len(evs))

\* The groups of the first n paths: their contour lists, the empty ones
\* left out.
GroupsOf(n) ==
    SelectSeq([k \in 1 .. n |-> AllContours(paths[k].events)],
              LAMBDA g : g # <<>>)

AreaAtLeast(c, min) == Abs(Area2(c)) * Delta * RowHeight >= 2 * min

\* The cells the offset footprints of groups i+1 .. n cover.
LaterHalos(i, n) ==
    UNION {Filled(Inflate(contour_segments_paths[j])) : j \in (i + 1) .. n}

\* ------------------------------------------------------------- claims

\* C1, as stated: once the loop has processed all groups, the area of every
\* group g_i is still entirely part of `combined`.
C1_EveryGroupSurvives ==
    pc = "simplify_coarse" =>
        \A i \in 1 .. Len(contour_segments_paths) :
            Filled(contour_segments_paths[i]) \subseteq Filled(combined)

\* C1, amended: while and after the loop runs, the part of every processed
\* group's area that lies outside the offset footprint of every group
\* processed after it is part of `combined`; in particular the whole of
\* the last processed group is.
C1_SurvivesOutsideLaterHalos ==
    (pc \in {"combine", "simplify_coarse"}) =>
        \A i \in 1 .. (gi - 1) :
            (Filled(contour_segments_paths[i]) \ LaterHalos(i, gi - 1))
                \subseteq Filled(combined)

\* A later group's footprint has removed part, not all, of the first group.
C1_Witness ==
    /\ pc = "simplify_coarse"
    /\ Len(contour_segments_paths) = 2
    /\ ~(Filled(contour_segments_paths[1]) \subseteq Filled(combined))
    /\ Filled(contour_segments_paths[1]) \cap Filled(combined) # {}
    /\ Filled(contour_segments_paths[2]) \subseteq Filled(combined)

\* C2, as stated: the combiner iterates over as many groups as there are
\* extracted path shapes.
C2_OneGroupPerPath ==
    AfterFlatten => Len(contour_segments_paths) = Len(paths)

\* C2, amended: there is one group for every path shape that committed at
\* least one contour, in extraction order, none of them empty (a shape
\* with zero contours is dropped before the loop), and the loop runs its
\* step once for each of them.
C2_OneGroupPerNonEmptyPath ==
    /\ AfterFlatten =>
         /\ Len(contour_segments_paths) =
               Cardinality({k \in 1 .. Len(paths) : AllContours(paths[k].events) # <<>>})
         /\ \A i \in 1 .. Len(contour_segments_paths) :
               /\ contour_segments_paths[i] # <<>>
               /\ contour_segments_paths[i] = GroupsOf(Len(paths))[i]
         /\ gi <= Len(contour_segments_paths) + 1
    /\ AfterLoop => gi = Len(contour_segments_paths) + 1

\* A run that ended with two path shapes and one group.
C2_Witness ==
    /\ pc = "done"
    /\ Len(paths) = 2
    /\ Len(contour_segments_paths) = 1
    /\ gi = 2

\* C3, as stated: after the whole cleaning pass no contour of `combined`
\* has unsigned area below the minimum area.
C3_NoSmallContourAtEnd ==
    AfterCleaning =>
        \A i \in 1 .. Len(combined) : AreaAtLeast(combined[i], MinArea)

\* C3, amended: right after the filter step, before the re-union and the
\* second simplify, no contour of `combined` has unsigned area below the
\* minimum area.
C3_NoSmallContourAfterFilter ==
    pc = "reunion" =>
        \A i \in 1 .. Len(combined) : AreaAtLeast(combined[i], MinArea)

\* The filter has dropped every contour of a non-empty run.
C3_Witness ==
    /\ pc = "reunion"
    /\ contour_segments_paths # <<>>
    /\ combined = <<>>

\* C4: the extractor visits every node once, in pre-order, and produces
\* one path shape per Path node, in document order, whatever the nesting.
C4_ExtractPreOrder ==
    /\ \A i, j \in 1 .. Len(visited) : i # j => visited[i] # visited[j]
    /\ Parsed =>
         [i \in 1 .. Len(paths) |-> paths[i].node]
            = SelectSeq(visited, LAMBDA n : tree.kind[n] = "Path")
    /\ AfterExtract =>
         /\ visited = DocOrder
         /\ Len(paths) = Cardinality(PathNodes(tree))
         /\ [i \in 1 .. Len(paths) |-> paths[i].node]
               = SelectSeq(DocOrder, LAMBDA n : tree.kind[n] = "Path")
         /\ \A i \in 1 .. Len(paths) : paths[i].events = tree.data[paths[i].node]

\* Two path shapes, the first of them nested in a group that comes before a
\* node of another kind, extracted in an order other than that of the ids.
C4_Witness ==
    /\ pc = "flatten"
    /\ Len(paths) = 2
    /\ tree.parent[paths[1].node] # 0
    /\ paths[1].node > paths[2].node
    /\ \E n \in 1 .. tree.n : tree.kind[n] = "Other"

\* C5: every committed contour has at least 3 points and is what a subpath
\* had accumulated when an End event with close = true arrived; an End
\* event with close = false, or with fewer than 3 points, commits nothing.
C5_CommittedContoursClosed ==
    /\ \A g \in 1 .. Len(contour_segments_paths) :
          \A i \in 1 .. Len(contour_segments_paths[g]) :
              Len(contour_segments_paths[g][i]) >= 3
    /\ (pc = "flatten" /\ idx <= Len(paths)) =>
          LET evs == paths[idx].events IN
          /\ \A i \in 1 .. Len(contour_segments) :
                /\ Len(contour_segments[i]) >= 3
                /\ \E j \in 1 .. (ei - 1) :
                      /\ evs[j].t = "End" /\ evs[j].close
                      /\ contour_segments[i] = PointsAt(evs, j)
          /\ Len(contour_segments) = Cardinality(ClosingEvents(evs, ei - 1))

\* A path whose events so far hold an End with close = false after 3 points
\* or more, which committed nothing, and one committed contour.
C5_Witness ==
    /\ pc = "flatten" /\ idx <= Len(paths)
    /\ Len(contour_segments) = 1
    /\ \E j \in 1 .. (ei - 1) :
          /\ paths[idx].events[j].t = "End"
          /\ ~paths[idx].events[j].close
          /\ Len(PointsAt(paths[idx].events, j)) >= 3

\* C6: the cleaning calls are made once each, after every group has been
\* processed, in the order simplify(coarse), filter_small, union, simplify
\* (fine), on every run that gets that far, and coarse > fine.
CleaningCalls ==
    << [op |-> "simplify", arg |-> CoarseTol],
       [op |-> "filter_small", arg |-> MinArea],
       [op |-> "union", arg |-> 0],
       [op |-> "simplify", arg |-> FineTol] >>

C6_CleaningInOrder ==
    /\ CoarseTol > FineTol
    /\ Len(ops) <= Len(CleaningCalls)
    /\ ops = SubSeq(CleaningCalls, 1, Len(ops))
    /\ ops # <<>> => AfterLoop /\ gi = Len(contour_segments_paths) + 1
    /\ pc = "simplify_coarse" => Len(ops) = 0
    /\ pc = "filter" => Len(ops) = 1
    /\ pc = "reunion" => Len(ops) = 2
    /\ pc = "simplify_fine" => Len(ops) = 3
    /\ AfterCleaning => ops = CleaningCalls

\* A run over groups that ends with `combined` empty.
C6_Witness ==
    /\ pc = "done"
    /\ contour_segments_paths # <<>>
    /\ combined = <<>>
    /\ ops = CleaningCalls

\* C7: an error ends the run at once: nothing is written, no statistics
\* are printed; success is reported only after the document was written.
C7_ErrorsAbort ==
    /\ error # "none" <=> pc = "failed"
    /\ error # "none" => ~output.written /\ ~stats.printed
    /\ error = "clip" => d = <<>>
    /\ stats.printed => output.written
    /\ pc = "done" => output.written /\ stats.printed /\ error = "none"

\* A clip error inside the loop, after a group had been combined.
C7_Witness ==
    /\ pc = "failed"
    /\ error = "clip"
    /\ ops = <<>>
    /\ combined # <<>>

\* C8: a document with no Path node runs without a clip error to an empty
\* `combined`, an empty draw-command string and zero output polygons.
C8_EmptyInput ==
    PathNodes(tree) = {} =>
        /\ error # "clip"
        /\ combined = <<>>
        /\ d = <<>>
        /\ output_polygons = 0
        /\ AfterExtract => paths = <<>>
        /\ pc = "done" =>
              /\ output = [written |-> TRUE, d |-> <<>>]
              /\ stats.output_polygons = 0
              /\ stats.output_vertices = 0

C8_Witness ==
    /\ pc = "done"
    /\ PathNodes(tree) = {}
    /\ ops = CleaningCalls

\* C9: a step of the loop on group g leaves `combined` equal to g itself
\* when `combined` was empty, and to union(difference(combined, expanded),
\* g) otherwise, so that g's whole area is part of `combined` after it.
C9_Step ==
    [][(pc = "combine" /\ gi' = gi + 1) =>
          LET g == contour_segments_paths[gi] IN
          /\ expanded' = Inflate(g)
          /\ combined = <<>> => combined' = g
          /\ combined # <<>> =>
                Filled(combined') = (Filled(combined) \ Filled(expanded')) \cup Filled(g)
          /\ Filled(g) \subseteq Filled(combined')
          /\ (gi = 1 /\ Len(contour_segments_paths) = 1) => combined' = g]_vars

\* Both branches have run: the first group seeded `combined`, the second
\* one's footprint took cells of the first.
C9_Witness ==
    /\ pc = "combine"
    /\ gi = 3
    /\ Filled(expanded) \cap Filled(contour_segments_paths[1]) # {}
    /\ Filled(contour_segments_paths[2]) \subseteq Filled(combined)
    /\ combined # contour_segments_paths[2]

\* C10: the groups are exactly the contour lists of the paths' own
\* subpaths, in order, and input_vertices is the number of their points.
C10_NoLeakBetweenPaths ==
    /\ (pc = "flatten" /\ idx <= Len(paths)) =>
          /\ contour_segments = ContoursOf(paths[idx].events, ei - 1)
          /\ current_polygon = PointsAt(paths[idx].events, ei)
          /\ contour_segments_paths = GroupsOf(idx - 1)
    /\ AfterFlatten =>
          /\ contour_segments_paths = GroupsOf(Len(paths))
          /\ contour_segments = <<>>
          /\ input_vertices =
                SumSeq([k \in 1 .. Len(paths) |-> VertexCount(AllContours(paths[k].events))])

\* Two groups; one path has an abandoned open subpath before its contour.
C10_Witness ==
    /\ pc = "combine"
    /\ Len(contour_segments_paths) = 2
    /\ \E k \in 1 .. Len(paths) :
          LET evs == paths[k].events IN
          /\ AllContours(evs) # <<>>
          /\ \E b \in 2 .. Len(evs) : evs[b].t = "Begin" /\ evs[b - 1].t = "Line"
    /\ input_vertices > 0

=============================================================================
